---- MODULE Spec2Model ----
(***************************************************************************)
(* A model of the statuscake client (src/statuscake/api.py): the field     *)
(* validator, the request dispatcher, the location cache and the resource  *)
(* operations built from them.                                             *)
(*                                                                         *)
(* Python values are records [t |-> type name, v |-> content].  Strings    *)
(* are TLA+ strings (concatenated with \o, sliced with SubSeq), lists are  *)
(* sequences of values, dicts are functions from key strings to values.    *)
(* Messages and reprs are those of Python 3.                               *)
(***************************************************************************)
EXTENDS Integers, Sequences, FiniteSets, TLC

VARIABLES
    timeout,                  \* self.timeout
    adapters,                 \* self.session.adapters, most specific prefix first
    location_cache_timeout,   \* self._location_cache_timeout (Unset until assigned)
    location_cache,           \* self._location_cache (Unset until assigned)
    now,                      \* time.time()
    answer,                   \* what the service does with the next request
    iter_order,               \* the order in which this build's dicts iterate
    ctor_timeout,             \* the timeout argument the client was constructed with
    data,                     \* the caller's payload object (the write operations mutate it)
    fetches,                  \* history: the fetches get_node_locations completed, oldest first
    last                      \* the last operation call: its arguments, requests and outcome

vars == <<timeout, adapters, location_cache_timeout, location_cache, now, answer,
          iter_order, ctor_timeout, data, fetches, last>>

----------------------------------------------------------------------------
(* Python values *)

PyInt(n) == [t |-> "int", v |-> n]
PyStr(s) == [t |-> "str", v |-> s]
PyBool(b) == [t |-> "bool", v |-> b]
PyList(s) == [t |-> "list", v |-> s]
PyDict(f) == [t |-> "dict", v |-> f]
PyNone == [t |-> "NoneType", v |-> 0]
\* an attribute that was never assigned (hasattr is false)
Unset == [t |-> "unset", v |-> 0]

\* d.get(k, default)
Get(d, k, default) == IF k \in DOMAIN d THEN d[k] ELSE default

\* d[k] = val
SetItem(d, k, val) == [x \in DOMAIN d \cup {k} |-> IF x = k THEN val ELSE d[x]]

\* bool(val)
Truthy(val) ==
    CASE val.t = "NoneType" -> FALSE
      [] val.t = "bool" -> val.v
      [] val.t = "int" -> val.v # 0
      [] val.t = "str" -> Len(val.v) > 0
      [] val.t \in {"list", "tuple", "set", "frozenset"} -> Len(val.v) > 0
      [] val.t = "dict" -> DOMAIN val.v # {}
      [] OTHER -> TRUE

IsNumber(val) == val.t \in {"int", "bool"}

\* the number a bool or an int compares as
NumberOf(val) == IF val.t = "bool" THEN (IF val.v THEN 1 ELSE 0) ELSE val.v

\* a == b
PyEq(a, b) ==
    IF IsNumber(a) /\ IsNumber(b) THEN NumberOf(a) = NumberOf(b)
    ELSE a.t = b.t /\ a.v = b.v

\* type(val).__name__
TypeName(val) == val.t

RECURSIVE ReprItems(_)

\* repr(val)
repr(val) ==
    CASE val.t = "int" -> ToString(val.v)
      [] val.t = "bool" -> IF val.v THEN "True" ELSE "False"
      [] val.t = "NoneType" -> "None"
      [] val.t = "str" -> "'" \o val.v \o "'"
      [] val.t = "list" -> "[" \o ReprItems(val.v) \o "]"
      [] OTHER -> "<" \o val.t \o ">"

ReprItems(s) ==
    IF s = <<>> THEN ""
    ELSE IF Len(s) = 1 THEN repr(s[1])
    ELSE repr(s[1]) \o ", " \o ReprItems(Tail(s))

\* str(val)
str(val) == IF val.t = "str" THEN val.v ELSE repr(val)

----------------------------------------------------------------------------
(* The conversions *)

RECURSIVE JoinFrom(_, _, _)

\* ','.join(items) from item i on: the joined string, or the TypeError of the
\* first item that is not a str
JoinFrom(items, i, acc) ==
    IF i > Len(items) THEN [raised |-> FALSE, msg |-> "", value |-> PyStr(acc)]
    ELSE IF items[i].t # "str"
    THEN [raised |-> TRUE,
          msg |-> "sequence item " \o ToString(i - 1) \o ": expected str instance, "
                  \o TypeName(items[i]) \o " found",
          value |-> PyNone]
    ELSE JoinFrom(items, i + 1, IF i = 1 THEN items[i].v ELSE acc \o "," \o items[i].v)

to_comma_list(value) ==
    IF value.t \in {"list", "tuple", "set", "frozenset"}
    THEN JoinFrom(value.v, 1, "")
    ELSE [raised |-> FALSE, msg |-> "", value |-> value]

to_int(value) ==
    IF value.t = "bool"
    THEN [raised |-> FALSE, msg |-> "", value |-> PyInt(NumberOf(value))]
    ELSE [raised |-> FALSE, msg |-> "", value |-> value]

\* field_conv(value) for the converter a schema entry names
Convert(conv, value) ==
    CASE conv = "to_comma_list" -> to_comma_list(value)
      [] conv = "to_int" -> to_int(value)

----------------------------------------------------------------------------
(* The field schemas.  A schema is the sequence of its items in the order   *)
(* the dict literal declares them; an item is the field's name with its     *)
(* (field_type, field_values, field_conv).                                  *)

NoValues == [kind |-> "None", items |-> <<>>, lo |-> 0, hi |-> 0]
\* a tuple of allowed values
OneOf(items) == [kind |-> "tuple", items |-> items, lo |-> 0, hi |-> 0]
\* range(lo, hi)
Range(lo, hi) == [kind |-> "range", items |-> <<>>, lo |-> lo, hi |-> hi]

Flag == OneOf(<<PyInt(0), PyInt(1)>>)

Field(name, type, values, conv) ==
    [name |-> name, type |-> type, values |-> values, conv |-> conv]

CONTACT_GROUP_FIELDS == <<
    Field("GroupName", "str", NoValues, "None"),
    Field("DesktopAlert", "int", Flag, "None"),
    Field("Email", "str", NoValues, "to_comma_list"),
    Field("Boxcat", "str", NoValues, "None"),
    Field("Pushover", "str", NoValues, "None"),
    Field("PingURL", "str", NoValues, "None"),
    Field("Mobile", "str", NoValues, "to_comma_list"),
    Field("ContactID", "int", NoValues, "None") >>

SSL_FIELDS == <<
    Field("domain", "str", NoValues, "None"),
    Field("checkrate", "int",
          OneOf(<<PyInt(300), PyInt(600), PyInt(2800), PyInt(3600), PyInt(86400),
                  PyInt(2073600)>>), "None"),
    Field("contact_groups", "str", NoValues, "to_comma_list"),
    Field("alert_at", "str", NoValues, "None"),
    Field("alert_expiray", "bool", NoValues, "None"),
    Field("alert_reminder", "bool", NoValues, "None"),
    Field("alert_broken", "bool", NoValues, "None") >>

TESTS_FIELDS == <<
    Field("TestID", "int", NoValues, "None"),
    Field("Paused", "int", Flag, "to_int"),
    Field("WebsiteName", "str", NoValues, "None"),
    Field("WebsiteURL", "str", NoValues, "None"),
    Field("Port", "int", NoValues, "None"),
    Field("NodeLocations", "str", NoValues, "to_comma_list"),
    Field("Timeout", "int", Range(5, 101), "None"),
    Field("PingURL", "str", NoValues, "None"),
    Field("Confirmation", "int", Range(0, 11), "None"),
    Field("CheckRate", "int", Range(0, 24001), "None"),
    Field("BasicUser", "str", NoValues, "None"),
    Field("BasicPass", "str", NoValues, "None"),
    Field("Public", "int", Flag, "None"),
    Field("LogoImage", "str", NoValues, "None"),
    Field("Branding", "int", Flag, "None"),
    Field("WebsiteHost", "str", NoValues, "None"),
    Field("Virus", "int", Flag, "None"),
    Field("FindString", "str", NoValues, "None"),
    Field("DoNotFind", "int", Flag, "None"),
    Field("TestType", "str",
          OneOf(<<PyStr("HTTP"), PyStr("TCP"), PyStr("PING"), PyStr("PUSH")>>), "None"),
    Field("ContactGroup", "str", NoValues, "to_comma_list"),
    Field("RealBrowser", "int", Flag, "None"),
    Field("TriggerRate", "int", Range(0, 61), "None"),
    Field("TestTags", "str", NoValues, "to_comma_list"),
    Field("FinalEndpoint", "str", NoValues, "None"),
    Field("PostRaw", "str", NoValues, "None"),
    Field("EnableSSLAlert", "int", Flag, "None") >>

\* isinstance(val, field_type); six.string_types is (str,), and a bool is an int
IsInstance(val, type) ==
    CASE type = "str" -> val.t = "str"
      [] type = "int" -> val.t \in {"int", "bool"}
      [] type = "bool" -> val.t = "bool"

\* val in field_values
In(val, values) ==
    CASE values.kind = "tuple" ->
            \E i \in 1..Len(values.items) : PyEq(val, values.items[i])
      [] values.kind = "range" ->
            IsNumber(val) /\ values.lo <= NumberOf(val) /\ NumberOf(val) < values.hi

\* str(field_type)
StrType(type) ==
    IF type = "str" THEN "(<class 'str'>,)" ELSE "<class '" \o type \o "'>"

\* str(field_values)
StrValues(values) ==
    CASE values.kind = "None" -> "None"
      [] values.kind = "tuple" -> "(" \o ReprItems(values.items) \o ")"
      [] values.kind = "range" ->
            "range(" \o ToString(values.lo) \o ", " \o ToString(values.hi) \o ")"

Reverse(s) == [i \in 1..Len(s) |-> s[Len(s) + 1 - i]]

\* six.iteritems(check_map): the items in the order this build's dicts iterate
IterItems(check_map) ==
    IF iter_order = "insertion" THEN check_map ELSE Reverse(check_map)

----------------------------------------------------------------------------
(* The field validator *)

\* as CheckField, with the type and value checks skipped for a converted field
CheckFieldTrustingConversion(d, item) ==
    LET field_name == item.name
        Ok(dd) == [raised |-> FALSE, why |-> "", field |-> field_name, msg |-> "",
                   data |-> dd]
        Raise(why, msg, dd) == [raised |-> TRUE, why |-> why, field |-> field_name,
                                msg |-> msg, data |-> dd]
        TypeAndValue(dd) ==
            IF ~IsInstance(dd[field_name], item.type)
            THEN Raise("type",
                       "Field " \o field_name \o " must be of type " \o StrType(item.type),
                       dd)
            ELSE IF item.values.kind # "None" /\ ~In(dd[field_name], item.values)
            THEN Raise("value",
                       "Field " \o field_name \o " value " \o StrType(item.type)
                       \o " does not match one of: " \o StrValues(item.values),
                       dd)
            ELSE Ok(dd)
    IN  IF field_name \notin DOMAIN d THEN Ok(d)
        ELSE IF item.conv # "None"
        THEN LET c == Convert(item.conv, d[field_name])
             IN  IF c.raised
                 THEN Raise("conv", "Field " \o field_name \o ": " \o c.msg, d)
                 ELSE Ok([d EXCEPT ![field_name] = c.value])
        ELSE TypeAndValue(d)

\* as CheckField, with the converter run on data.get(field_name) for a field
\* the payload lacks
CheckFieldConvertingAbsent(d, item) ==
    LET field_name == item.name
        Ok(dd) == [raised |-> FALSE, why |-> "", field |-> field_name, msg |-> "",
                   data |-> dd]
        Raise(why, msg, dd) == [raised |-> TRUE, why |-> why, field |-> field_name,
                                msg |-> msg, data |-> dd]
        TypeAndValue(dd) ==
            IF ~IsInstance(dd[field_name], item.type)
            THEN Raise("type",
                       "Field " \o field_name \o " must be of type " \o StrType(item.type),
                       dd)
            ELSE IF item.values.kind # "None" /\ ~In(dd[field_name], item.values)
            THEN Raise("value",
                       "Field " \o field_name \o " value " \o StrType(item.type)
                       \o " does not match one of: " \o StrValues(item.values),
                       dd)
            ELSE Ok(dd)
    IN  IF field_name \notin DOMAIN d /\ item.conv = "None" THEN Ok(d)
        ELSE IF item.conv # "None"
        THEN LET c == Convert(item.conv, Get(d, field_name, PyNone))
             IN  IF c.raised
                 THEN Raise("conv", "Field " \o field_name \o ": " \o c.msg, d)
                 ELSE TypeAndValue(SetItem(d, field_name, c.value))
        ELSE TypeAndValue(d)

\* One pass of the loop body of _check_fields, for one item of the schema.
\* why is "" when the pass ends without raising.
CheckField(d, item) ==
    LET field_name == item.name
        Ok(dd) == [raised |-> FALSE, why |-> "", field |-> field_name, msg |-> "",
                   data |-> dd]
        Raise(why, msg, dd) == [raised |-> TRUE, why |-> why, field |-> field_name,
                                msg |-> msg, data |-> dd]
        TypeAndValue(dd) ==
            IF ~IsInstance(dd[field_name], item.type)
            THEN Raise("type",
                       "Field " \o field_name \o " must be of type " \o StrType(item.type),
                       dd)
            ELSE IF item.values.kind # "None" /\ ~In(dd[field_name], item.values)
            THEN Raise("value",
                       "Field " \o field_name \o " value " \o StrType(item.type)
                       \o " does not match one of: " \o StrValues(item.values),
                       dd)
            ELSE Ok(dd)
    IN  IF field_name \notin DOMAIN d THEN Ok(d)
        ELSE IF item.conv # "None"
        THEN LET c == Convert(item.conv, d[field_name])
             IN  IF c.raised
                 THEN Raise("conv", "Field " \o field_name \o ": " \o c.msg, d)
                 ELSE TypeAndValue([d EXCEPT ![field_name] = c.value])
        ELSE TypeAndValue(d)

RECURSIVE CheckFieldsFrom(_, _, _)

CheckFieldsFrom(d, items, i) ==
    IF i > Len(items)
    THEN [raised |-> FALSE, why |-> "", field |-> "", msg |-> "", data |-> d]
    ELSE LET r == CheckField(d, items[i])
         IN  IF r.raised THEN r ELSE CheckFieldsFrom(r.data, items, i + 1)

\* self._check_fields(data, check_map), d the dict data refers to: whether it
\* raised StatusCakeFieldError, with what message, and the dict afterwards
_check_fields(d, check_map) == CheckFieldsFrom(d, IterItems(check_map), 1)

----------------------------------------------------------------------------
(* The endpoints and the session *)

URL_LOCATIONS == "https://app.statuscake.com/API/Locations/json"
URL_ALERT == "https://app.statuscake.com/API/Alerts/?TestID="
URL_ALL_GROUPS == "https://app.statuscake.com/API/ContactGroups/"
URL_UPDATE_GROUP == "https://app.statuscake.com/API/ContactGroups/Update/"
URL_DELETE_GROUP == URL_UPDATE_GROUP \o "?ContactID="
URL_ALL_TESTS == "https://app.statuscake.com/API/Tests/"
URL_DETAILS_TEST == "https://app.statuscake.com/API/Tests/Details/?TestID="
URL_UPDATE_TEST == "https://app.statuscake.com/API/Tests/Update"
URL_PERIODS == "https://app.statuscake.com/API/Tests/Periods/?TestID="
URL_CHECKS == "https://app.statuscake.com/API/Tests/Checks/?TestID="
URL_SSL == "https://app.statuscake.com/API/SSL/"
URL_UPDATE_SSL == "https://app.statuscake.com/API/SSL/Update"
URL_PAGE_SPEED == "https://app.statuscake.com/API/Pagespeed"

\* template % id, for the templates that end in their one %s
Interpolate(template, id) == template \o str(id)

\* the origin __init__ mounts its adapter on, and that adapter's max_retries
MOUNT_PREFIX == "https://www.statuscake.com"
MAX_RETRIES == 5

\* the credentials this client was constructed with
ApiKey == "key"
ApiUser == "user"

LowerOf == [A |-> "a", B |-> "b", C |-> "c", D |-> "d", E |-> "e", F |-> "f", G |-> "g",
            H |-> "h", I |-> "i", J |-> "j", K |-> "k", L |-> "l", M |-> "m", N |-> "n",
            O |-> "o", P |-> "p", Q |-> "q", R |-> "r", S |-> "s", T |-> "t", U |-> "u",
            V |-> "v", W |-> "w", X |-> "x", Y |-> "y", Z |-> "z"]

\* c.lower(), c one character
LowerChar(c) == IF c \in DOMAIN LowerOf THEN LowerOf[c] ELSE c

\* url.lower().startswith(prefix.lower()); lower() maps character by character,
\* so the two are compared one lowered character at a time
LowerStartsWith(url, prefix) ==
    /\ Len(prefix) <= Len(url)
    /\ \A i \in 1..Len(prefix) :
          LowerChar(SubSeq(url, i, i)) = LowerChar(SubSeq(prefix, i, i))

\* requests.Session(): the adapters every session starts with, max_retries 0
SessionAdapters ==
    << [prefix |-> "https://", max_retries |-> 0],
       [prefix |-> "http://", max_retries |-> 0] >>

\* session.mount(prefix, HTTPAdapter(max_retries)): the adapters stay ordered
\* by prefix length, longest first
Mount(mounted, prefix, max_retries) ==
    LET longer == SelectSeq(mounted, LAMBDA a : Len(a.prefix) >= Len(prefix)
                                               /\ a.prefix # prefix)
        shorter == SelectSeq(mounted, LAMBDA a : Len(a.prefix) < Len(prefix))
    IN  longer \o << [prefix |-> prefix, max_retries |-> max_retries] >> \o shorter

\* session.get_adapter(url): the index of the first adapter whose prefix the
\* url starts with, 0 when there is none
GetAdapter(mounted, url) ==
    LET hits == {i \in 1..Len(mounted) : LowerStartsWith(url, mounted[i].prefix)}
    IN  IF hits = {} THEN 0 ELSE CHOOSE i \in hits : \A j \in hits : i <= j

----------------------------------------------------------------------------
(* The request dispatcher *)

\* urlencode(d): the form fields of the body, each value through str()
urlencode(d) == {<<k, str(d[k])>> : k \in DOMAIN d}

NoBody == [form |-> FALSE, fields |-> {}]

\* the options an operation is called with; Unset is an option not passed
NoKwargs == [timeout |-> Unset, check_errors |-> Unset]

\* as SuccessIsFalse, with "not json_resp.get('Success', True)" for the test
SuccessIsFalsy(json_resp) == ~Truthy(Get(json_resp, "Success", PyBool(TRUE)))

\* json_resp.get('Success', True) is False
SuccessIsFalse(json_resp) == Get(json_resp, "Success", PyBool(TRUE)) = PyBool(FALSE)

\* json_resp.get('Error', None) is not None
HasError(json_resp) == Get(json_resp, "Error", PyNone) # PyNone

\* self._request(method, url, data=d, auth_headers, check_errors, **kwargs)
\* with the service answering `answer`: the requests it sent, and either the
\* response it returns or the exception it raises.
_request(method, url, d, auth_headers, check_errors, kwargs) ==
    LET headers == IF auth_headers
                   THEN {<<"API", ApiKey>>, <<"Username", ApiUser>>}
                   ELSE {}
        body == IF d.t = "dict"
                THEN [form |-> TRUE, fields |-> urlencode(d.v)]
                ELSE NoBody
        call_timeout == IF kwargs.timeout # Unset THEN kwargs.timeout ELSE timeout
        adapter == GetAdapter(adapters, url)
        sent == [method |-> method, url |-> url, headers |-> headers, body |-> body,
                 timeout |-> call_timeout,
                 max_retries |-> IF adapter = 0 THEN 0 ELSE adapters[adapter].max_retries]
        Raise(exc, msg) == [raised |-> TRUE, exc |-> exc, msg |-> msg,
                            response |-> answer, requests |-> <<sent>>]
        Return == [raised |-> FALSE, exc |-> "", msg |-> PyNone,
                   response |-> answer, requests |-> <<sent>>]
    IN  IF adapter = 0
        THEN [raised |-> TRUE, exc |-> "InvalidSchema", msg |-> PyNone,
              response |-> answer, requests |-> <<>>]
        ELSE IF answer.kind = "connect_error"
        THEN Raise("ConnectionError", PyNone)
        ELSE IF ~check_errors THEN Return
        ELSE IF answer.kind # "json" THEN Raise("ValueError", PyNone)
        ELSE LET json_resp == answer.body
             IN  IF /\ json_resp.t = "dict"
                    /\ (SuccessIsFalse(json_resp.v) \/ HasError(json_resp.v))
                 THEN LET errno == Get(json_resp.v, "ErrNo", PyInt(-1))
                          error == Get(json_resp.v, "Error", PyNone)
                          error_message == IF ~Truthy(error)
                                           THEN Get(json_resp.v, "Message", PyNone)
                                           ELSE error
                          Or(default) == IF Truthy(error_message)
                                         THEN error_message ELSE PyStr(default)
                      IN  IF PyEq(errno, PyInt(0))
                          THEN Raise("StatusCakeAuthError", Or("Authentication Failed"))
                          ELSE IF PyEq(errno, PyInt(1))
                          THEN Raise("StatusCakeNotLinkedError", Or("Authentication Failed"))
                          ELSE Raise("StatusCakeResponseError", Or("API Call Failed"))
                 ELSE Return

\* the check_errors an operation passes on: the caller's option, else the default
CheckErrors(kwargs) ==
    IF kwargs.check_errors = Unset THEN TRUE ELSE Truthy(kwargs.check_errors)

----------------------------------------------------------------------------
(* The resource operations.  Each is the outcome of one call: whether it    *)
(* returned or raised, what, the requests it sent, and the payload object   *)
(* as the call leaves it.                                                   *)

Returned(value, d, requests) ==
    [kind |-> "return", exc |-> "", msg |-> PyNone, value |-> value, data |-> d,
     requests |-> requests, why |-> "", field |-> ""]

Raised(exc, msg, d, requests) ==
    [kind |-> "raise", exc |-> exc, msg |-> msg, value |-> PyNone, data |-> d,
     requests |-> requests, why |-> "", field |-> ""]

\* raise StatusCakeFieldError, c the outcome of _check_fields
RaisedField(c) ==
    [kind |-> "raise", exc |-> "StatusCakeFieldError", msg |-> PyStr(c.msg),
     value |-> PyNone, data |-> PyDict(c.data), requests |-> <<>>, why |-> c.why,
     field |-> c.field]

\* raise StatusCakeFieldMissingError("<field> missing")
Missing(field, d) ==
    [kind |-> "raise", exc |-> "StatusCakeFieldMissingError",
     msg |-> PyStr(field \o " missing"), value |-> PyNone, data |-> d,
     requests |-> <<>>, why |-> "missing", field |-> field]

NotADict(d) == Raised("StatusCakeError", PyStr("data argument must be a dict"), d, <<>>)

\* return self._request(method, url, data=body, **kwargs).json()
\* d is the caller's payload object, which the dispatcher leaves alone
Dispatch(method, url, body, auth_headers, check_errors, kwargs, d) ==
    LET r == _request(method, url, body, auth_headers, check_errors, kwargs)
    IN  IF r.raised THEN Raised(r.exc, r.msg, d, r.requests)
        ELSE IF r.response.kind # "json" THEN Raised("ValueError", PyNone, d, r.requests)
        ELSE Returned(r.response.body, d, r.requests)

\* self._check_fields(data, check_map), then the put of the checked payload
CheckAndPut(fields, check_map, url, kwargs) ==
    LET c == _check_fields(fields, check_map)
    IN  IF c.raised THEN RaisedField(c)
        ELSE Dispatch("put", url, PyDict(c.data), TRUE, CheckErrors(kwargs), kwargs,
                      PyDict(c.data))

\* as SetDefault, with the assignment made whether or not key is in data
SetAlways(fields, key, val) == SetItem(fields, key, val)

\* data[key] = val if key is not in data
SetDefault(fields, key, val) == IF key \in DOMAIN fields THEN fields ELSE SetItem(fields, key, val)

insert_contact_group(d, kwargs) ==
    IF d.t # "dict" THEN NotADict(d)
    ELSE IF "GroupName" \notin DOMAIN d.v THEN Missing("GroupName", d)
    ELSE CheckAndPut(d.v, CONTACT_GROUP_FIELDS, URL_UPDATE_GROUP, kwargs)

update_contact_group(d, kwargs) ==
    IF d.t # "dict" THEN NotADict(d)
    ELSE IF "ContactID" \notin DOMAIN d.v THEN Missing("ContactID", d)
    ELSE CheckAndPut(d.v, CONTACT_GROUP_FIELDS, URL_UPDATE_GROUP, kwargs)

insert_ssl(d, kwargs) ==
    IF d.t # "dict" THEN NotADict(d)
    ELSE IF "domain" \notin DOMAIN d.v THEN Missing("domain", d)
    ELSE LET d1 == SetDefault(d.v, "checkrate", PyInt(3600))
         IN  IF "contact_groups" \notin DOMAIN d1 THEN Missing("contact_groups", PyDict(d1))
             ELSE LET d2 == SetDefault(d1, "alert_at", PyStr("1,7,30"))
                      d3 == SetDefault(d2, "alert_expiry", PyBool(TRUE))
                      d4 == SetDefault(d3, "alert_reminder", PyBool(TRUE))
                      d5 == SetDefault(d4, "alert_broken", PyBool(TRUE))
                  IN  CheckAndPut(d5, SSL_FIELDS, URL_UPDATE_SSL, kwargs)

update_ssl(d, kwargs) ==
    IF d.t # "dict" THEN NotADict(d)
    ELSE IF "id" \notin DOMAIN d.v THEN Missing("id", d)
    ELSE CheckAndPut(d.v, SSL_FIELDS, URL_UPDATE_SSL, kwargs)

insert_test(d, kwargs) ==
    IF d.t # "dict" THEN NotADict(d)
    ELSE IF "WebsiteName" \notin DOMAIN d.v THEN Missing("WebsiteName", d)
    ELSE IF "WebsiteURL" \notin DOMAIN d.v THEN Missing("WebsiteURL", d)
    ELSE IF "TestType" \notin DOMAIN d.v THEN Missing("TestType", d)
    ELSE CheckAndPut(SetDefault(d.v, "CheckRate", PyInt(300)), TESTS_FIELDS,
                     URL_UPDATE_TEST, kwargs)

\* as update_test, without the check for CheckRate
update_test_without_check_rate(d, kwargs) ==
    IF d.t # "dict" THEN NotADict(d)
    ELSE IF "TestID" \notin DOMAIN d.v THEN Missing("TestID", d)
    ELSE CheckAndPut(d.v, TESTS_FIELDS, URL_UPDATE_TEST, kwargs)

update_test(d, kwargs) ==
    IF d.t # "dict" THEN NotADict(d)
    ELSE IF "TestID" \notin DOMAIN d.v THEN Missing("TestID", d)
    ELSE IF "CheckRate" \notin DOMAIN d.v THEN Missing("CheckRate", d)
    ELSE CheckAndPut(d.v, TESTS_FIELDS, URL_UPDATE_TEST, kwargs)

\* the schema of the given name
Schema(name) ==
    CASE name = "TESTS_FIELDS" -> TESTS_FIELDS
      [] name = "CONTACT_GROUP_FIELDS" -> CONTACT_GROUP_FIELDS
      [] name = "SSL_FIELDS" -> SSL_FIELDS

\* a call of self._check_fields(data, check_map) on its own
check_fields_call(d, name) ==
    LET c == _check_fields(d.v, Schema(name))
    IN  IF c.raised THEN RaisedField(c) ELSE Returned(PyNone, PyDict(c.data), <<>>)

\* the operations that only dispatch: a get or a delete of one url
Read(method, url, kwargs) ==
    Dispatch(method, url, PyNone, TRUE, CheckErrors(kwargs), kwargs, data)

get_contact_groups(kwargs) == Read("get", URL_ALL_GROUPS, kwargs)
delete_contact_group(contact_id, kwargs) ==
    Read("delete", Interpolate(URL_DELETE_GROUP, contact_id), kwargs)
get_alert(test_id, kwargs) == Read("get", Interpolate(URL_ALERT, test_id), kwargs)
get_all_tests(kwargs) == Read("get", URL_ALL_TESTS, kwargs)
get_all_ssl(kwargs) == Read("get", URL_SSL, kwargs)
get_details_test(test_id, kwargs) ==
    Read("get", Interpolate(URL_DETAILS_TEST, test_id), kwargs)
get_periods(test_id, kwargs) == Read("get", Interpolate(URL_PERIODS, test_id), kwargs)
get_checks(test_id, kwargs) == Read("get", Interpolate(URL_CHECKS, test_id), kwargs)
delete_test(test_id, kwargs) ==
    Read("delete", Interpolate(URL_DETAILS_TEST, test_id), kwargs)
get_page_speed(kwargs) == Read("get", URL_PAGE_SPEED, kwargs)

delete_ssl(id, kwargs) ==
    Dispatch("delete", URL_UPDATE_SSL, PyDict([k \in {"id"} |-> id]), TRUE,
             CheckErrors(kwargs), kwargs, data)

\* the seconds a fetched location list stays cached
CACHE_SECONDS == 900

\* as CacheIsFresh, with >= for >
CacheIsFreshAtExpiry ==
    /\ location_cache_timeout # Unset
    /\ location_cache # Unset
    /\ location_cache_timeout.v >= now

\* hasattr(...) and hasattr(...) and self._location_cache_timeout > time.time()
CacheIsFresh ==
    /\ location_cache_timeout # Unset
    /\ location_cache # Unset
    /\ location_cache_timeout.v > now

\* time.time() + 900, read when the request has returned
NewCacheTimeout(completed_at) == PyInt(completed_at + CACHE_SECONDS)

\* get_node_locations(**kwargs): auth_headers and check_errors are the call's
\* own, so kwargs carries transport options only.  fetched says whether the
\* call reached the two assignments to the cache.
get_node_locations(kwargs) ==
    IF CacheIsFresh
    THEN [out |-> Returned(location_cache, data, <<>>), fetched |-> FALSE]
    ELSE LET o == Dispatch("get", URL_LOCATIONS, PyNone, FALSE, FALSE, kwargs, data)
         IN  [out |-> o, fetched |-> o.kind = "return"]

----------------------------------------------------------------------------
(* Bounds and inputs *)

\* the clock stops here
MaxTime == 2000
\* a payload the caller builds has at most this many fields
MaxFields == 5

\* the fields of r that are passed
Present(r) == [k \in {x \in DOMAIN r : r[x] # Unset} |-> r[k]]

Kwargs == [timeout : {Unset, PyInt(3)}, check_errors : {Unset, PyBool(FALSE)}]
TransportKwargs == {kw \in Kwargs : kw.check_errors = Unset}

Ids == {PyInt(42)}

Json(body) == [kind |-> "json", body |-> body]
ConnectError == [kind |-> "connect_error", body |-> PyNone]
NotJson == [kind |-> "text", body |-> PyNone]

\* the response objects the service may answer with
Envelopes ==
    { PyDict(Present(r)) :
        r \in [Success : {Unset, PyBool(TRUE), PyBool(FALSE), PyInt(0)},
               Error : {Unset, PyNone, PyStr(""), PyStr("bad key")},
               ErrNo : {Unset, PyInt(0), PyInt(1), PyInt(7)},
               Message : {Unset, PyStr("oops")}] }

LocationsA == PyDict([k \in {"1"} |-> PyStr("London")])
LocationsB == PyList(<<PyStr("London"), PyStr("Paris")>>)

Answers == {Json(b) : b \in Envelopes \cup {LocationsB}} \cup {ConnectError, NotJson}

LocationAnswers ==
    {Json(LocationsA), Json(LocationsB),
     Json(PyDict([k \in {"Success"} |-> PyBool(FALSE)])), ConnectError}

WriteAnswers ==
    {Json(PyDict([k \in {"Success"} |-> PyBool(TRUE)])),
     Json(PyDict([k \in {"Success", "ErrNo"} |->
                    IF k = "Success" THEN PyBool(FALSE) ELSE PyInt(1)]))}

\* the answers the reading operations are tried against
ReadAnswers ==
    {Json(LocationsA), Json(LocationsB),
     Json(PyDict([k \in {"Success"} |-> PyBool(FALSE)])), ConnectError, NotJson}

TestPayloads ==
    [WebsiteName : {Unset, PyStr("x")},
     WebsiteURL : {Unset, PyStr("http://x")},
     TestType : {Unset, PyStr("HTTP"), PyStr("FTP")},
     CheckRate : {Unset, PyInt(300), PyInt(24001), PyBool(TRUE)},
     TestID : {Unset, PyInt(1)},
     Paused : {Unset, PyBool(TRUE), PyStr("on")},
     NodeLocations : {Unset, PyList(<<PyStr("a"), PyStr("b")>>),
                      PyList(<<PyStr("a"), PyInt(1)>>)}]

ContactGroupPayloads ==
    [GroupName : {Unset, PyStr("g"), PyInt(5)},
     ContactID : {Unset, PyInt(1)},
     DesktopAlert : {Unset, PyInt(1), PyInt(2), PyBool(TRUE)},
     Email : {Unset, PyList(<<PyStr("a@x"), PyStr("b@x")>>), PyNone},
     Note : {Unset, PyInt(0)}]

SslPayloads ==
    [domain : {Unset, PyStr("x.org")},
     checkrate : {Unset, PyInt(300), PyInt(5)},
     contact_groups : {Unset, PyList(<<PyStr("1"), PyStr("2")>>), PyStr("1")},
     id : {Unset, PyInt(1)},
     alert_expiry : {Unset, PyBool(FALSE)},
     alert_expiray : {Unset, PyStr("yes")},
     alert_broken : {Unset, PyInt(1)}]

\* the payload objects a caller passes to a write operation
Payloads ==
    { PyDict(Present(r)) :
        r \in {x \in TestPayloads \cup ContactGroupPayloads \cup SslPayloads :
                 Cardinality({k \in DOMAIN x : x[k] # Unset}) <= MaxFields} }
    \cup {PyNone, PyList(<<PyStr("domain")>>)}

----------------------------------------------------------------------------
(* The state machine *)

\* StatusCake(api_key, api_user, timeout=timeout_arg)
Constructed(timeout_arg) ==
    /\ timeout = PyInt(10)
    /\ ctor_timeout = timeout_arg
    /\ adapters = Mount(SessionAdapters, MOUNT_PREFIX, MAX_RETRIES)
    /\ location_cache_timeout = Unset
    /\ location_cache = Unset

NoCall ==
    [op |-> "", kwargs |-> NoKwargs, arg |-> PyNone, before |-> PyNone, at |-> 0,
     prior |-> <<>>, out |-> Returned(PyNone, PyNone, <<>>)]

\* one call of an operation: what it was given and what came of it
Called(op, kwargs, arg, out) ==
    /\ last' = [op |-> op, kwargs |-> kwargs, arg |-> arg, before |-> data, at |-> now,
                prior |-> fetches, out |-> out]
    /\ data' = out.data

client == <<timeout, adapters, ctor_timeout, iter_order>>
cache == <<location_cache_timeout, location_cache, fetches>>

InsertTest(kw) ==
    /\ Called("insert_test", kw, PyNone, insert_test(data, kw))
    /\ UNCHANGED <<client, cache, now, answer>>

UpdateTest(kw) ==
    /\ Called("update_test", kw, PyNone, update_test(data, kw))
    /\ UNCHANGED <<client, cache, now, answer>>

InsertContactGroup(kw) ==
    /\ Called("insert_contact_group", kw, PyNone, insert_contact_group(data, kw))
    /\ UNCHANGED <<client, cache, now, answer>>

UpdateContactGroup(kw) ==
    /\ Called("update_contact_group", kw, PyNone, update_contact_group(data, kw))
    /\ UNCHANGED <<client, cache, now, answer>>

InsertSsl(kw) ==
    /\ Called("insert_ssl", kw, PyNone, insert_ssl(data, kw))
    /\ UNCHANGED <<client, cache, now, answer>>

UpdateSsl(kw) ==
    /\ Called("update_ssl", kw, PyNone, update_ssl(data, kw))
    /\ UNCHANGED <<client, cache, now, answer>>

CheckFields(name) ==
    /\ data.t = "dict"
    /\ Called("_check_fields", NoKwargs, PyStr(name), check_fields_call(data, name))
    /\ UNCHANGED <<client, cache, now, answer>>

GetContactGroups(kw) ==
    /\ Called("get_contact_groups", kw, PyNone, get_contact_groups(kw))
    /\ UNCHANGED <<client, cache, now, answer>>

DeleteContactGroup(id, kw) ==
    /\ Called("delete_contact_group", kw, id, delete_contact_group(id, kw))
    /\ UNCHANGED <<client, cache, now, answer>>

GetAlert(id, kw) ==
    /\ Called("get_alert", kw, id, get_alert(id, kw))
    /\ UNCHANGED <<client, cache, now, answer>>

GetAllTests(kw) ==
    /\ Called("get_all_tests", kw, PyNone, get_all_tests(kw))
    /\ UNCHANGED <<client, cache, now, answer>>

GetAllSsl(kw) ==
    /\ Called("get_all_ssl", kw, PyNone, get_all_ssl(kw))
    /\ UNCHANGED <<client, cache, now, answer>>

GetDetailsTest(id, kw) ==
    /\ Called("get_details_test", kw, id, get_details_test(id, kw))
    /\ UNCHANGED <<client, cache, now, answer>>

GetPeriods(id, kw) ==
    /\ Called("get_periods", kw, id, get_periods(id, kw))
    /\ UNCHANGED <<client, cache, now, answer>>

GetChecks(id, kw) ==
    /\ Called("get_checks", kw, id, get_checks(id, kw))
    /\ UNCHANGED <<client, cache, now, answer>>

DeleteTest(id, kw) ==
    /\ Called("delete_test", kw, id, delete_test(id, kw))
    /\ UNCHANGED <<client, cache, now, answer>>

DeleteSsl(id, kw) ==
    /\ Called("delete_ssl", kw, id, delete_ssl(id, kw))
    /\ UNCHANGED <<client, cache, now, answer>>

GetPageSpeed(kw) ==
    /\ Called("get_page_speed", kw, PyNone, get_page_speed(kw))
    /\ UNCHANGED <<client, cache, now, answer>>

\* get_node_locations(**kw); when it fetches, the clock reads now + latency at
\* the time.time() that follows the request
GetNodeLocations(kw, latency) ==
    LET r == get_node_locations(kw)
    IN  /\ now + latency <= MaxTime
        /\ Called("get_node_locations", kw, PyNone, r.out)
        /\ IF r.fetched
           THEN /\ now' = now + latency
                /\ location_cache_timeout' = NewCacheTimeout(now')
                /\ location_cache' = r.out.value
                /\ fetches' = Append(fetches, [at |-> now', value |-> r.out.value])
           ELSE UNCHANGED <<cache, now>>
        /\ UNCHANGED <<client, answer>>

\* the node_locations property: get_node_locations()
NodeLocations(latency) == GetNodeLocations(NoKwargs, latency)

\* time passes between two calls
Tick(seconds) ==
    /\ now + seconds <= MaxTime
    /\ now' = now + seconds
    /\ UNCHANGED <<client, cache, answer, data, last>>

\* the service comes to answer differently
ServiceChanges(a) ==
    /\ answer' = a
    /\ a # answer
    /\ UNCHANGED <<client, cache, now, data, last>>

Latencies == {0, 1}
TickSeconds == {300, 899, 900}

\* Every reading operation, on clients constructed with and without a timeout
Init ==
    /\ \E t \in {PyInt(10), PyInt(30)} : Constructed(t)
    /\ now = 0
    /\ answer \in ReadAnswers
    /\ iter_order = "insertion"
    /\ data = PyNone
    /\ fetches = <<>>
    /\ last = NoCall

Next ==
    \/ \E kw \in Kwargs : GetContactGroups(kw)
    \/ \E kw \in Kwargs, id \in Ids : DeleteContactGroup(id, kw)
    \/ \E kw \in Kwargs, id \in Ids : GetAlert(id, kw)
    \/ \E kw \in Kwargs : GetAllTests(kw)
    \/ \E kw \in Kwargs : GetAllSsl(kw)
    \/ \E kw \in Kwargs, id \in Ids : GetDetailsTest(id, kw)
    \/ \E kw \in Kwargs, id \in Ids : GetPeriods(id, kw)
    \/ \E kw \in Kwargs, id \in Ids : GetChecks(id, kw)
    \/ \E kw \in Kwargs, id \in Ids : DeleteTest(id, kw)
    \/ \E kw \in Kwargs, id \in Ids : DeleteSsl(id, kw)
    \/ \E kw \in Kwargs : GetPageSpeed(kw)
    \/ \E kw \in TransportKwargs, latency \in Latencies : GetNodeLocations(kw, latency)

Spec == Init /\ [][Next]_vars

\* The dispatcher's reading of every answer
InitErrors ==
    /\ Constructed(PyInt(10))
    /\ now = 0
    /\ answer \in Answers
    /\ iter_order = "insertion"
    /\ data = PyNone
    /\ fetches = <<>>
    /\ last = NoCall

NextErrors ==
    \/ \E kw \in Kwargs : GetAllTests(kw)
    \/ \E kw \in Kwargs, id \in Ids : DeleteTest(id, kw)
    \/ \E kw \in Kwargs, id \in Ids : DeleteSsl(id, kw)
    \/ \E kw \in TransportKwargs : GetNodeLocations(kw, 0)

SpecErrors == InitErrors /\ [][NextErrors]_vars

\* The write operations on every payload
InitWrite ==
    /\ Constructed(PyInt(10))
    /\ now = 0
    /\ answer \in WriteAnswers
    /\ iter_order \in {"insertion", "reversed"}
    /\ data \in Payloads
    /\ fetches = <<>>
    /\ last = NoCall

NextWrite ==
    \/ InsertTest(NoKwargs)
    \/ UpdateTest(NoKwargs)
    \/ InsertContactGroup(NoKwargs)
    \/ UpdateContactGroup(NoKwargs)
    \/ InsertSsl(NoKwargs)
    \/ UpdateSsl(NoKwargs)
    \/ \E name \in {"TESTS_FIELDS", "CONTACT_GROUP_FIELDS", "SSL_FIELDS"} : CheckFields(name)

SpecWrite == InitWrite /\ [][NextWrite]_vars

\* The location cache as time passes and the service changes
InitCache ==
    /\ Constructed(PyInt(10))
    /\ now = 0
    /\ answer \in LocationAnswers
    /\ iter_order = "insertion"
    /\ data = PyNone
    /\ fetches = <<>>
    /\ last = NoCall

NextCache ==
    \/ \E kw \in TransportKwargs, latency \in Latencies : GetNodeLocations(kw, latency)
    \/ \E latency \in Latencies : NodeLocations(latency)
    \/ \E seconds \in TickSeconds : Tick(seconds)
    \/ \E a \in LocationAnswers : ServiceChanges(a)

SpecCache == InitCache /\ [][NextCache]_vars

----------------------------------------------------------------------------
(* The claims *)

\* sub occurs in the string s
Names(s, sub) ==
    \E i \in 1..(Len(s) - Len(sub) + 1) : SubSeq(s, i, i + Len(sub) - 1) = sub

Request(i) == last.out.requests[i]
Dispatched == Len(last.out.requests)

WriteOps == {"insert_test", "update_test", "insert_contact_group",
             "update_contact_group", "insert_ssl", "update_ssl"}

\* the fields each write operation requires, in the order it checks them
RequiredFields ==
    [insert_test |-> <<"WebsiteName", "WebsiteURL", "TestType">>,
     update_test |-> <<"TestID", "CheckRate">>,
     insert_contact_group |-> <<"GroupName">>,
     update_contact_group |-> <<"ContactID">>,
     insert_ssl |-> <<"domain", "contact_groups">>,
     update_ssl |-> <<"id">>]

\* the required fields of op that the payload fields lacks, as indexes
MissingOf(op, fields) ==
    {i \in 1..Len(RequiredFields[op]) : RequiredFields[op][i] \notin DOMAIN fields}

FirstMissing(op, fields) ==
    RequiredFields[op][CHOOSE i \in MissingOf(op, fields) :
                          \A j \in MissingOf(op, fields) : i <= j]

\* some fetch completed less than 900 seconds before the last call began
RecentFetch ==
    \E i \in 1..Len(last.prior) : last.at - last.prior[i].at < 900

\* C1: a get_node_locations call sends a request if and only if no earlier
\* fetch of this client completed less than 900 seconds before it; otherwise
\* it returns the value the most recent fetch stored and sends nothing.  A
\* call that fetches replaces the cached value by what it fetched and the
\* expiry by the fetch's completion time plus 900.
C1_CacheWindow ==
    last.op = "get_node_locations" =>
        /\ Dispatched = (IF RecentFetch THEN 0 ELSE 1)
        /\ RecentFetch =>
              /\ last.out.kind = "return"
              /\ last.out.value = last.prior[Len(last.prior)].value
              /\ fetches = last.prior
        /\ (~RecentFetch /\ last.out.kind = "return") =>
              /\ Len(fetches) = Len(last.prior) + 1
              /\ location_cache = last.out.value
              /\ location_cache = fetches[Len(fetches)].value
              /\ location_cache_timeout = PyInt(fetches[Len(fetches)].at + 900)
        /\ (~RecentFetch /\ last.out.kind = "raise") => fetches = last.prior

\* a second fetch after the first one's expiry replaced the cached value, and
\* the call after it was answered from the cache
C1_Witness ==
    /\ last.op = "get_node_locations"
    /\ Len(fetches) = 2
    /\ fetches[2].at - fetches[1].at >= 900
    /\ fetches[2].value # fetches[1].value
    /\ RecentFetch
    /\ Dispatched = 0
    /\ last.out.value = fetches[2].value

\* C2: a write operation given a dict payload that lacks one of its required
\* fields raises FieldMissingError, its message naming the first missing field
\* in the operation's check order, and sends no request.
C2_MissingField ==
    (/\ last.op \in WriteOps
     /\ last.before.t = "dict"
     /\ MissingOf(last.op, last.before.v) # {}) =>
        /\ last.out.kind = "raise"
        /\ last.out.exc = "StatusCakeFieldMissingError"
        /\ Names(last.out.msg.v, FirstMissing(last.op, last.before.v))
        /\ \A i \in MissingOf(last.op, last.before.v) :
              RequiredFields[last.op][i] # FirstMissing(last.op, last.before.v)
                 => ~Names(last.out.msg.v, RequiredFields[last.op][i])
        /\ Dispatched = 0

\* update_test on a payload that has TestID and lacks CheckRate
C2_Witness ==
    /\ last.op = "update_test"
    /\ last.before.t = "dict"
    /\ "TestID" \in DOMAIN last.before.v
    /\ "CheckRate" \notin DOMAIN last.before.v
    /\ last.out.exc = "StatusCakeFieldMissingError"

\* val is of the schema item's type
OfType(val, item) ==
    CASE item.type = "str" -> val.t = "str"
      [] item.type = "bool" -> val.t = "bool"
      [] item.type = "int" -> val.t \in {"int", "bool"}

\* val is one of the values the schema item allows
Allowed(val, item) ==
    CASE item.values.kind = "None" -> TRUE
      [] item.values.kind = "range" ->
            /\ val.t \in {"int", "bool"}
            /\ NumberOf(val) \in item.values.lo..(item.values.hi - 1)
      [] item.values.kind = "tuple" ->
            \E i \in 1..Len(item.values.items) :
                IF val.t = "str" THEN item.values.items[i] = val
                ELSE /\ item.values.items[i].t = "int"
                     /\ item.values.items[i].v = NumberOf(val)

\* the schema the last call of _check_fields was given
LastSchema == Schema(last.arg.v)

\* C3: _check_fields(P, S) raises FieldError, or returns with every field
\* that is in both P and S holding a value of S's type for it and, where S
\* lists allowed values, one of them.
C3_ValidatedOrRaised ==
    last.op = "_check_fields" =>
        \/ last.out.kind = "raise" /\ last.out.exc = "StatusCakeFieldError"
        \/ /\ last.out.kind = "return"
           /\ \A i \in 1..Len(LastSchema) :
                 LastSchema[i].name \in DOMAIN data.v =>
                    /\ OfType(data.v[LastSchema[i].name], LastSchema[i])
                    /\ Allowed(data.v[LastSchema[i].name], LastSchema[i])

\* a payload with a converted Paused and NodeLocations passed TESTS_FIELDS
C3_Witness ==
    /\ last.op = "_check_fields"
    /\ last.arg = PyStr("TESTS_FIELDS")
    /\ last.out.kind = "return"
    /\ {"Paused", "NodeLocations", "TestType"} \subseteq DOMAIN data.v
    /\ data.v["Paused"] # last.before.v["Paused"]
    /\ data.v["NodeLocations"] # last.before.v["NodeLocations"]

\* the body is an object whose Success is false or whose Error is not null
IsErrorBody(body) ==
    /\ body.t = "dict"
    /\ \/ "Success" \in DOMAIN body.v /\ body.v["Success"] = PyBool(FALSE)
       \/ "Error" \in DOMAIN body.v /\ body.v["Error"] # PyNone

HasErrNo(body, n) == "ErrNo" \in DOMAIN body.v /\ body.v["ErrNo"] = PyInt(n)

ErrorKind(body) ==
    IF HasErrNo(body, 0) THEN "StatusCakeAuthError"
    ELSE IF HasErrNo(body, 1) THEN "StatusCakeNotLinkedError"
    ELSE "StatusCakeResponseError"

NonEmpty(body, key) ==
    key \in DOMAIN body.v /\ body.v[key].t = "str" /\ body.v[key].v # ""

ErrorMessage(body) ==
    IF NonEmpty(body, "Error") THEN body.v["Error"]
    ELSE IF NonEmpty(body, "Message") THEN body.v["Message"]
    ELSE IF ErrorKind(body) = "StatusCakeResponseError" THEN PyStr("API Call Failed")
    ELSE PyStr("Authentication Failed")

\* the last call had the dispatcher check the body for errors
ChecksErrors == last.op # "get_node_locations" /\ last.kwargs.check_errors = Unset

\* C4: with check_errors true the dispatcher raises exactly when the parsed
\* body is an object whose Success is false or whose Error is not null:
\* AuthError for ErrNo 0, NotLinkedError for ErrNo 1, ResponseError otherwise,
\* with the Error field, else the Message field, else the default as message.
\* Otherwise, and with check_errors false, the caller gets the body unchanged.
C4_ErrorClassification ==
    (last.op # "" /\ answer.kind = "json") =>
        IF ChecksErrors /\ IsErrorBody(answer.body)
        THEN /\ last.out.kind = "raise"
             /\ last.out.exc = ErrorKind(answer.body)
             /\ last.out.msg = ErrorMessage(answer.body)
        ELSE /\ last.out.kind = "return"
             /\ last.out.value = answer.body

\* an envelope with ErrNo 1, an empty Error and a Message raised NotLinkedError
\* with the Message
C4_Witness ==
    /\ last.op = "delete_test"
    /\ answer.kind = "json"
    /\ answer.body.t = "dict"
    /\ DOMAIN answer.body.v = {"ErrNo", "Error", "Message"}
    /\ answer.body.v["Error"] = PyStr("")
    /\ last.out.exc = "StatusCakeNotLinkedError"
    /\ last.out.msg = PyStr("oops")

\* C5: every request carries the per-call timeout when the caller passed one,
\* else the timeout the client was constructed with.
C5_TimeoutOverride ==
    \A i \in 1..Dispatched :
        Request(i).timeout =
            (IF last.kwargs.timeout # Unset THEN last.kwargs.timeout ELSE ctor_timeout)

\* C6: every request goes through the adapter mounted with max_retries 5: the
\* origin it is mounted on is a prefix of the request's url.
C6_RetryingAdapter ==
    \A i \in 1..Dispatched :
        /\ Request(i).max_retries = 5
        /\ SubSeq(Request(i).url, 1, Len(MOUNT_PREFIX)) = MOUNT_PREFIX

HasRequired(op, fields) == MissingOf(op, fields) = {}

\* C7: insert_test on a dict payload that has WebsiteName, WebsiteURL and
\* TestType and passes validation sends exactly one put, whose payload has
\* CheckRate 300 when the caller gave none and the caller's CheckRate when it
\* gave one; it returns the parsed body when the answer is {"Success": true}.
C7_InsertTestDefault ==
    (/\ last.op = "insert_test"
     /\ last.before.t = "dict"
     /\ HasRequired("insert_test", last.before.v)
     /\ last.out.exc # "StatusCakeFieldError") =>
        /\ Dispatched = 1
        /\ Request(1).method = "put"
        /\ Request(1).url = "https://app.statuscake.com/API/Tests/Update"
        /\ Request(1).body.form
        /\ \A pair \in Request(1).body.fields :
              pair[1] = "CheckRate" =>
                 pair[2] = (IF "CheckRate" \in DOMAIN last.before.v
                            THEN str(last.before.v["CheckRate"]) ELSE "300")
        /\ \E pair \in Request(1).body.fields : pair[1] = "CheckRate"
        /\ "CheckRate" \in DOMAIN last.before.v =>
              data.v["CheckRate"] = last.before.v["CheckRate"]
        /\ answer = Json(PyDict([k \in {"Success"} |-> PyBool(TRUE)])) =>
              last.out.kind = "return" /\ last.out.value = answer.body

\* insert_test without CheckRate sent its put with the default and returned
C7_Witness ==
    /\ last.op = "insert_test"
    /\ last.before.t = "dict"
    /\ "CheckRate" \notin DOMAIN last.before.v
    /\ Dispatched = 1
    /\ <<"CheckRate", "300">> \in Request(1).body.fields
    /\ last.out.kind = "return"

SchemaNames(schema) == {schema[i].name : i \in 1..Len(schema)}

\* C8: whether _check_fields(P, S) returns or raises, P has the keys it had
\* before, and every field of P that is not a key of S has its value.
C8_ValidatorFrame ==
    last.op = "_check_fields" =>
        /\ DOMAIN data.v = DOMAIN last.before.v
        /\ \A k \in DOMAIN last.before.v :
              k \notin SchemaNames(LastSchema) => data.v[k] = last.before.v[k]

\* a contact group payload with a field the schema lacks had its Email joined
C8_Witness ==
    /\ last.op = "_check_fields"
    /\ last.arg = PyStr("CONTACT_GROUP_FIELDS")
    /\ {"Note", "Email"} \subseteq DOMAIN last.before.v
    /\ data.v["Email"] # last.before.v["Email"]
    /\ Cardinality(DOMAIN last.before.v) < 4

\* C9: the FieldError for a value outside the allowed set names the field,
\* the field's value and the allowed set.
C9_ValueMessage ==
    (last.out.exc = "StatusCakeFieldError" /\ last.out.why = "value") =>
        /\ Names(last.out.msg.v, last.out.field)
        /\ Names(last.out.msg.v, str(data.v[last.out.field]))
        /\ \E i \in 1..Len(SSL_FIELDS \o TESTS_FIELDS \o CONTACT_GROUP_FIELDS) :
              LET item == (SSL_FIELDS \o TESTS_FIELDS \o CONTACT_GROUP_FIELDS)[i]
              IN  /\ item.name = last.out.field
                  /\ Names(last.out.msg.v, StrValues(item.values))

\* C10: a write operation that raises FieldMissingError or the base Error
\* leaves the caller's payload as it was.
C10_NoPartialEffect ==
    (/\ last.op \in WriteOps
     /\ last.out.exc \in {"StatusCakeFieldMissingError", "StatusCakeError"}) =>
        data = last.before

====
